---- MODULE Spec2Model ----
(***************************************************************************)
(* The checkers ("Dame") server of src/server.js: the rules engine (move   *)
(* generators, applyMoveWithRules, checkWinner) and the socket handlers    *)
(* (joinRoom, updateRules, makeMove, resetGame, disconnect) that drive it  *)
(* on the one fixed room.                                                  *)
(***************************************************************************)
EXTENDS Integers, Sequences, FiniteSets, TLC

\* ------------------------------------------------------------ bounds
\* Sockets that may be connected at once, known client ids, and accepted
\* moves explored per game.
NumSockets == 2
NumClients == 1
MaxMoves == 1

\* ------------------------------------------------------------ constants
BoardSize == 8
LastRow == 7
FIXED_ROOM == "chris-sandrina"

\* JavaScript null / undefined object, and a coordinate that is not an
\* integer (undefined, a fraction, a string): Number.isInteger is false of it.
Null == <<>>
Undefined == -1000

Rows == 0 .. (BoardSize - 1)
Sq(r, c) == [r |-> r, c |-> c]
Squares == { Sq(r, c) : r \in Rows, c \in Rows }

\* ------------------------------------------------------------ helpers
sign(piece) == IF piece = 0 THEN 0 ELSE IF piece > 0 THEN 1 ELSE -1

isKing(piece) == (IF piece < 0 THEN -piece ELSE piece) = 2

inBounds(r, c) == r >= 0 /\ r < BoardSize /\ c >= 0 /\ c < BoardSize

forwardDir(side) == IF side = 1 THEN -1 ELSE 1

\* ------------------------------------------------------------ move generators
\* Lists are sequences in the order the code pushes them.
\* Mutant of listManMoves: a man also steps backward.
listManMoves_bothWays(board, r, c, side) ==
    LET step(dr, dc) ==
            IF inBounds(r + dr, c + dc) /\ board[r + dr][c + dc] = 0
            THEN << [from |-> Sq(r, c), to |-> Sq(r + dr, c + dc)] >>
            ELSE << >>
    IN step(-1, -1) \o step(-1, 1) \o step(1, -1) \o step(1, 1)

listManMoves(board, r, c, side) ==
    LET dr == forwardDir(side)
        step(dc) ==
            LET r1 == r + dr
                c1 == c + dc
            IN IF inBounds(r1, c1) /\ board[r1][c1] = 0
               THEN << [from |-> Sq(r, c), to |-> Sq(r1, c1)] >>
               ELSE << >>
    IN step(-1) \o step(1)

\* Mutant of jumpCapture: the landing square is not tested for being empty.
jumpCapture_anyLanding(board, r, c, side, dr, dc) ==
    LET r1 == r + dr
        c1 == c + dc
        r2 == r + 2 * dr
        c2 == c + 2 * dc
    IN IF ~inBounds(r2, c2) THEN << >>
       ELSE LET mid == board[r1][c1]
            IN IF mid # 0 /\ sign(mid) = -side
               THEN << [from |-> Sq(r, c), over |-> Sq(r1, c1), to |-> Sq(r2, c2)] >>
               ELSE << >>

\* One (dr, dc) iteration of the 2-step jump shared by listManCaptures and the
\* short branch of listKingCaptures.
jumpCapture(board, r, c, side, dr, dc) ==
    LET r1 == r + dr
        c1 == c + dc
        r2 == r + 2 * dr
        c2 == c + 2 * dc
    IN IF ~inBounds(r2, c2) THEN << >>
       ELSE LET mid == board[r1][c1]
            IN IF mid # 0 /\ sign(mid) = -side /\ board[r2][c2] = 0
               THEN << [from |-> Sq(r, c), over |-> Sq(r1, c1), to |-> Sq(r2, c2)] >>
               ELSE << >>

listManCaptures(board, r, c, side, allowBackwardCapture) ==
    LET row(dr) == jumpCapture(board, r, c, side, dr, -1)
                   \o jumpCapture(board, r, c, side, dr, 1)
    IN IF allowBackwardCapture THEN row(-1) \o row(1)
       ELSE row(forwardDir(side))

\* The while loop of the flying branch of listKingMoves, from (rr, cc) on.
RECURSIVE kingMoveRay(_, _, _, _, _, _, _)

\* Mutant of kingMoveRay: the scan goes on behind a piece.
kingMoveRay_pastPieces(board, r, c, rr, cc, dr, dc) ==
    IF ~inBounds(rr, cc) THEN << >>
    ELSE (IF board[rr][cc] = 0
          THEN << [from |-> Sq(r, c), to |-> Sq(rr, cc)] >>
          ELSE << >>)
         \o kingMoveRay(board, r, c, rr + dr, cc + dc, dr, dc)

kingMoveRay(board, r, c, rr, cc, dr, dc) ==
    IF inBounds(rr, cc) /\ board[rr][cc] = 0
    THEN << [from |-> Sq(r, c), to |-> Sq(rr, cc)] >>
         \o kingMoveRay(board, r, c, rr + dr, cc + dc, dr, dc)
    ELSE << >>

listKingMoves(board, r, c, flying) ==
    LET short(dr, dc) ==
            IF inBounds(r + dr, c + dc) /\ board[r + dr][c + dc] = 0
            THEN << [from |-> Sq(r, c), to |-> Sq(r + dr, c + dc)] >>
            ELSE << >>
        ray(dr, dc) == kingMoveRay(board, r, c, r + dr, c + dc, dr, dc)
    IN IF ~flying
       THEN short(-1, -1) \o short(-1, 1) \o short(1, -1) \o short(1, 1)
       ELSE ray(-1, -1) \o ray(-1, 1) \o ray(1, -1) \o ray(1, 1)

RECURSIVE kingCaptureRay(_, _, _, _, _, _, _, _, _)

\* Mutant of kingCaptureRay: the scan stops at the first landing square.
kingCaptureRay_firstLanding(board, r, c, side, rr, cc, dr, dc, seenEnemy) ==
    IF ~inBounds(rr, cc) THEN << >>
    ELSE LET cell == board[rr][cc]
             s == sign(cell)
         IN IF cell = 0
            THEN IF seenEnemy # Null
                 THEN << [from |-> Sq(r, c), over |-> seenEnemy, to |-> Sq(rr, cc)] >>
                 ELSE kingCaptureRay(board, r, c, side, rr + dr, cc + dc, dr, dc, seenEnemy)
            ELSE IF s = side THEN << >>
            ELSE IF s = -side
                 THEN IF seenEnemy # Null THEN << >>
                      ELSE kingCaptureRay(board, r, c, side, rr + dr, cc + dc,
                                          dr, dc, Sq(rr, cc))
            ELSE << >>

\* Mutant of kingCaptureRay: an empty square is a landing whether or not an
\* enemy has been met.
kingCaptureRay_noEnemyNeeded(board, r, c, side, rr, cc, dr, dc, seenEnemy) ==
    IF ~inBounds(rr, cc) THEN << >>
    ELSE LET cell == board[rr][cc]
             s == sign(cell)
         IN IF cell = 0
            THEN << [from |-> Sq(r, c), over |-> seenEnemy, to |-> Sq(rr, cc)] >>
                 \o kingCaptureRay(board, r, c, side, rr + dr, cc + dc, dr, dc, seenEnemy)
            ELSE IF s = side THEN << >>
            ELSE IF s = -side
                 THEN IF seenEnemy # Null THEN << >>
                      ELSE kingCaptureRay(board, r, c, side, rr + dr, cc + dc,
                                          dr, dc, Sq(rr, cc))
            ELSE << >>

\* The while loop of the flying branch of listKingCaptures, from (rr, cc) on;
\* seenEnemy is Null or the square of the one enemy met so far.
kingCaptureRay(board, r, c, side, rr, cc, dr, dc, seenEnemy) ==
    IF ~inBounds(rr, cc) THEN << >>
    ELSE LET cell == board[rr][cc]
             s == sign(cell)
         IN IF cell = 0
            THEN (IF seenEnemy # Null
                  THEN << [from |-> Sq(r, c), over |-> seenEnemy, to |-> Sq(rr, cc)] >>
                  ELSE << >>)
                 \o kingCaptureRay(board, r, c, side, rr + dr, cc + dc, dr, dc, seenEnemy)
            ELSE IF s = side THEN << >>
            ELSE IF s = -side
                 THEN IF seenEnemy # Null THEN << >>
                      ELSE kingCaptureRay(board, r, c, side, rr + dr, cc + dc,
                                          dr, dc, Sq(rr, cc))
            ELSE << >>

listKingCaptures(board, r, c, side, flyingCapture) ==
    LET short(dr, dc) == jumpCapture(board, r, c, side, dr, dc)
        ray(dr, dc) == kingCaptureRay(board, r, c, side, r + dr, c + dc, dr, dc, Null)
    IN IF ~flyingCapture
       THEN short(-1, -1) \o short(-1, 1) \o short(1, -1) \o short(1, 1)
       ELSE ray(-1, -1) \o ray(-1, 1) \o ray(1, -1) \o ray(1, 1)

listCapturesForPiece(board, r, c, rules) ==
    LET piece == board[r][c]
        side == sign(piece)
    IN IF piece = 0 THEN << >>
       ELSE IF isKing(piece)
            THEN listKingCaptures(board, r, c, side, rules.flyingKingCapture)
            ELSE listManCaptures(board, r, c, side, rules.menBackwardCapture)

listMovesForPiece(board, r, c, rules) ==
    LET piece == board[r][c]
        side == sign(piece)
    IN IF piece = 0 THEN << >>
       ELSE IF isKing(piece)
            THEN listKingMoves(board, r, c, rules.flyingKingMove)
            ELSE listManMoves(board, r, c, side)

anyCaptureAvailable(board, side, rules) ==
    \E r \in Rows, c \in Rows :
        /\ sign(board[r][c]) = side
        /\ Len(listCapturesForPiece(board, r, c, rules)) > 0

\* Array.prototype.find on a list of moves: the first entry landing on (tr, tc),
\* Null when there is none.
findTo(list, tr, tc) ==
    LET hits == { i \in 1 .. Len(list) : list[i].to = Sq(tr, tc) }
    IN IF hits = {} THEN Null
       ELSE list[CHOOSE i \in hits : \A j \in hits : i <= j]

\* Array.prototype.some on a list of moves.
someTo(list, tr, tc) == \E i \in 1 .. Len(list) : list[i].to = Sq(tr, tc)

\* Mutant of applyMatched: under multiCapture "forced" a capture that can be
\* followed by another keeps the turn.
applyMatched_chainWhenForced(state, move, capMatch, captureWasAvailable) ==
    LET board == state.board
        rules == state.rules
        fr == move.from.r
        fc == move.from.c
        tr == move.to.r
        tc == move.to.c
        piece == board[fr][fc]
        side == sign(piece)
        cleared == [board EXCEPT ![fr][fc] = 0]
        isCapture == capMatch # Null
        capturedPos == IF isCapture THEN capMatch.over ELSE Null
        jumped == IF isCapture
                  THEN [cleared EXCEPT ![capturedPos.r][capturedPos.c] = 0]
                  ELSE cleared
        placed == IF ~isKing(piece) /\ side = 1 /\ tr = 0 THEN 2
                  ELSE IF ~isKing(piece) /\ side = -1 /\ tr = LastRow THEN -2
                  ELSE piece
        landed == [jumped EXCEPT ![tr][tc] = placed]
        penaltyRemoved == /\ rules.mustCapture
                          /\ rules.skipCapturePenaltyRemoveMoved
                          /\ captureWasAvailable
                          /\ ~isCapture
        newBoard == IF penaltyRemoved THEN [landed EXCEPT ![tr][tc] = 0] ELSE landed
    IN [state EXCEPT
          !.board = newBoard,
          !.lastMove = [from |-> move.from, to |-> move.to,
                        captured |-> capturedPos, penaltyRemoved |-> penaltyRemoved],
          !.turn = IF /\ rules.multiCapture = "forced"
                      /\ isCapture
                      /\ listCapturesForPiece(newBoard, tr, tc, rules) # << >>
                   THEN state.turn
                   ELSE -state.turn]

\* Mutant of applyMatched: the penalty does not look at mustCapture.
applyMatched_penaltyWithoutMustCapture(state, move, capMatch, captureWasAvailable) ==
    LET board == state.board
        rules == state.rules
        fr == move.from.r
        fc == move.from.c
        tr == move.to.r
        tc == move.to.c
        piece == board[fr][fc]
        side == sign(piece)
        cleared == [board EXCEPT ![fr][fc] = 0]
        isCapture == capMatch # Null
        capturedPos == IF isCapture THEN capMatch.over ELSE Null
        jumped == IF isCapture
                  THEN [cleared EXCEPT ![capturedPos.r][capturedPos.c] = 0]
                  ELSE cleared
        placed == IF ~isKing(piece) /\ side = 1 /\ tr = 0 THEN 2
                  ELSE IF ~isKing(piece) /\ side = -1 /\ tr = LastRow THEN -2
                  ELSE piece
        landed == [jumped EXCEPT ![tr][tc] = placed]
        penaltyRemoved == /\ rules.skipCapturePenaltyRemoveMoved
                          /\ captureWasAvailable
                          /\ ~isCapture
        newBoard == IF penaltyRemoved THEN [landed EXCEPT ![tr][tc] = 0] ELSE landed
    IN [state EXCEPT
          !.board = newBoard,
          !.lastMove = [from |-> move.from, to |-> move.to,
                        captured |-> capturedPos, penaltyRemoved |-> penaltyRemoved],
          !.turn = -state.turn]

\* Mutant of applyMatched: the source square is not cleared.
applyMatched_keepsSource(state, move, capMatch, captureWasAvailable) ==
    LET board == state.board
        rules == state.rules
        fr == move.from.r
        fc == move.from.c
        tr == move.to.r
        tc == move.to.c
        piece == board[fr][fc]
        side == sign(piece)
        cleared == board
        isCapture == capMatch # Null
        capturedPos == IF isCapture THEN capMatch.over ELSE Null
        jumped == IF isCapture
                  THEN [cleared EXCEPT ![capturedPos.r][capturedPos.c] = 0]
                  ELSE cleared
        placed == IF ~isKing(piece) /\ side = 1 /\ tr = 0 THEN 2
                  ELSE IF ~isKing(piece) /\ side = -1 /\ tr = LastRow THEN -2
                  ELSE piece
        landed == [jumped EXCEPT ![tr][tc] = placed]
        penaltyRemoved == /\ rules.mustCapture
                          /\ rules.skipCapturePenaltyRemoveMoved
                          /\ captureWasAvailable
                          /\ ~isCapture
        newBoard == IF penaltyRemoved THEN [landed EXCEPT ![tr][tc] = 0] ELSE landed
    IN [state EXCEPT
          !.board = newBoard,
          !.lastMove = [from |-> move.from, to |-> move.to,
                        captured |-> capturedPos, penaltyRemoved |-> penaltyRemoved],
          !.turn = -state.turn]

\* Mutant of applyMatched: a penalised move does not pass the turn.
applyMatched_penaltyKeepsTurn(state, move, capMatch, captureWasAvailable) ==
    LET board == state.board
        rules == state.rules
        fr == move.from.r
        fc == move.from.c
        tr == move.to.r
        tc == move.to.c
        piece == board[fr][fc]
        side == sign(piece)
        cleared == [board EXCEPT ![fr][fc] = 0]
        isCapture == capMatch # Null
        capturedPos == IF isCapture THEN capMatch.over ELSE Null
        jumped == IF isCapture
                  THEN [cleared EXCEPT ![capturedPos.r][capturedPos.c] = 0]
                  ELSE cleared
        placed == IF ~isKing(piece) /\ side = 1 /\ tr = 0 THEN 2
                  ELSE IF ~isKing(piece) /\ side = -1 /\ tr = LastRow THEN -2
                  ELSE piece
        landed == [jumped EXCEPT ![tr][tc] = placed]
        penaltyRemoved == /\ rules.mustCapture
                          /\ rules.skipCapturePenaltyRemoveMoved
                          /\ captureWasAvailable
                          /\ ~isCapture
        newBoard == IF penaltyRemoved THEN [landed EXCEPT ![tr][tc] = 0] ELSE landed
    IN [state EXCEPT
          !.board = newBoard,
          !.lastMove = [from |-> move.from, to |-> move.to,
                        captured |-> capturedPos, penaltyRemoved |-> penaltyRemoved],
          !.turn = IF penaltyRemoved THEN state.turn ELSE -state.turn]

\* Mutant of applyMatched: the penalty is applied before the piece is placed.
applyMatched_penaltyBeforePlace(state, move, capMatch, captureWasAvailable) ==
    LET board == state.board
        rules == state.rules
        fr == move.from.r
        fc == move.from.c
        tr == move.to.r
        tc == move.to.c
        piece == board[fr][fc]
        side == sign(piece)
        cleared == [board EXCEPT ![fr][fc] = 0]
        isCapture == capMatch # Null
        capturedPos == IF isCapture THEN capMatch.over ELSE Null
        jumped == IF isCapture
                  THEN [cleared EXCEPT ![capturedPos.r][capturedPos.c] = 0]
                  ELSE cleared
        placed == IF ~isKing(piece) /\ side = 1 /\ tr = 0 THEN 2
                  ELSE IF ~isKing(piece) /\ side = -1 /\ tr = LastRow THEN -2
                  ELSE piece
        penaltyRemoved == /\ rules.mustCapture
                          /\ rules.skipCapturePenaltyRemoveMoved
                          /\ captureWasAvailable
                          /\ ~isCapture
    IN [state EXCEPT !.board = [jumped EXCEPT ![tr][tc] = placed],
                     !.lastMove = [from |-> move.from, to |-> move.to,
                                   captured |-> capturedPos,
                                   penaltyRemoved |-> penaltyRemoved],
                     !.turn = -state.turn]

\* Mutant of applyMatched: a man is promoted on either end row.
applyMatched_promoteAnyEnd(state, move, capMatch, captureWasAvailable) ==
    LET board == state.board
        rules == state.rules
        fr == move.from.r
        fc == move.from.c
        tr == move.to.r
        tc == move.to.c
        piece == board[fr][fc]
        side == sign(piece)
        cleared == [board EXCEPT ![fr][fc] = 0]
        isCapture == capMatch # Null
        capturedPos == IF isCapture THEN capMatch.over ELSE Null
        jumped == IF isCapture
                  THEN [cleared EXCEPT ![capturedPos.r][capturedPos.c] = 0]
                  ELSE cleared
        placed == IF ~isKing(piece) /\ tr \in {0, LastRow} THEN 2 * side ELSE piece
        landed == [jumped EXCEPT ![tr][tc] = placed]
        penaltyRemoved == /\ rules.mustCapture
                          /\ rules.skipCapturePenaltyRemoveMoved
                          /\ captureWasAvailable
                          /\ ~isCapture
    IN [state EXCEPT !.board = IF penaltyRemoved
                                THEN [landed EXCEPT ![tr][tc] = 0]
                                ELSE landed,
                     !.lastMove = [from |-> move.from, to |-> move.to,
                                   captured |-> capturedPos,
                                   penaltyRemoved |-> penaltyRemoved],
                     !.turn = -state.turn]

\* Mutant of applyMatched: a man that lands on its far row by a capture is
\* not promoted.
applyMatched_noPromotionOnCapture(state, move, capMatch, captureWasAvailable) ==
    LET board == state.board
        rules == state.rules
        fr == move.from.r
        fc == move.from.c
        tr == move.to.r
        tc == move.to.c
        piece == board[fr][fc]
        side == sign(piece)
        cleared == [board EXCEPT ![fr][fc] = 0]
        isCapture == capMatch # Null
        capturedPos == IF isCapture THEN capMatch.over ELSE Null
        jumped == IF isCapture
                  THEN [cleared EXCEPT ![capturedPos.r][capturedPos.c] = 0]
                  ELSE cleared
        placed == IF isCapture THEN piece
                  ELSE IF ~isKing(piece) /\ side = 1 /\ tr = 0 THEN 2
                  ELSE IF ~isKing(piece) /\ side = -1 /\ tr = LastRow THEN -2
                  ELSE piece
        landed == [jumped EXCEPT ![tr][tc] = placed]
        penaltyRemoved == /\ rules.mustCapture
                          /\ rules.skipCapturePenaltyRemoveMoved
                          /\ captureWasAvailable
                          /\ ~isCapture
        newBoard == IF penaltyRemoved THEN [landed EXCEPT ![tr][tc] = 0] ELSE landed
    IN [state EXCEPT
          !.board = newBoard,
          !.lastMove = [from |-> move.from, to |-> move.to,
                        captured |-> capturedPos, penaltyRemoved |-> penaltyRemoved],
          !.turn = -state.turn]

\* ------------------------------------------------------------ move application
\* applyMoveWithRules from "let isCapture" on: capMatch is the result of
\* caps.find (Null when the destination is no capture landing) and
\* captureWasAvailable the result of anyCaptureAvailable on the board before
\* the move.
applyMatched(state, move, capMatch, captureWasAvailable) ==
    LET board == state.board
        rules == state.rules
        fr == move.from.r
        fc == move.from.c
        tr == move.to.r
        tc == move.to.c
        piece == board[fr][fc]
        side == sign(piece)
        cleared == [board EXCEPT ![fr][fc] = 0]
        isCapture == capMatch # Null
        capturedPos == IF isCapture THEN capMatch.over ELSE Null
        jumped == IF isCapture
                  THEN [cleared EXCEPT ![capturedPos.r][capturedPos.c] = 0]
                  ELSE cleared
        placed == IF ~isKing(piece) /\ side = 1 /\ tr = 0 THEN 2
                  ELSE IF ~isKing(piece) /\ side = -1 /\ tr = LastRow THEN -2
                  ELSE piece
        landed == [jumped EXCEPT ![tr][tc] = placed]
        penaltyRemoved == /\ rules.mustCapture
                          /\ rules.skipCapturePenaltyRemoveMoved
                          /\ captureWasAvailable
                          /\ ~isCapture
        newBoard == IF penaltyRemoved THEN [landed EXCEPT ![tr][tc] = 0] ELSE landed
    IN [state EXCEPT
          !.board = newBoard,
          !.lastMove = [from |-> move.from, to |-> move.to,
                        captured |-> capturedPos, penaltyRemoved |-> penaltyRemoved],
          !.turn = -state.turn]

applyMoveWithRules(state, move) ==
    applyMatched(state, move,
        findTo(listCapturesForPiece(state.board, move.from.r, move.from.c, state.rules),
               move.to.r, move.to.c),
        anyCaptureAvailable(state.board, sign(state.board[move.from.r][move.from.c]),
                            state.rules))

\* ------------------------------------------------------------ terminal state
countPieces(board, side) ==
    Cardinality({ sq \in Squares : sign(board[sq.r][sq.c]) = side })

hasAnyLegalMove(state, side) ==
    \E r \in Rows, c \in Rows :
        /\ sign(state.board[r][c]) = side
        /\ \/ Len(listCapturesForPiece(state.board, r, c, state.rules)) > 0
           \/ Len(listMovesForPiece(state.board, r, c, state.rules)) > 0

\* Mutant of checkWinner: the side that has just moved is tested for being
\* stuck.
checkWinner_moverStuck(state) ==
    IF countPieces(state.board, 1) = 0 THEN -1
    ELSE IF countPieces(state.board, -1) = 0 THEN 1
    ELSE IF ~hasAnyLegalMove(state, -state.turn) THEN state.turn
    ELSE 0

checkWinner(state) ==
    LET white == countPieces(state.board, 1)
        black == countPieces(state.board, -1)
    IN IF white = 0 THEN -1
       ELSE IF black = 0 THEN 1
       ELSE IF ~hasAnyLegalMove(state, state.turn) THEN -state.turn
       ELSE 0

\* ------------------------------------------------------------ game state
\* Mutant of InitialBoard: the white men are set on the other colour.
InitialBoard_whiteOnLight ==
    [r \in Rows |-> [c \in Rows |->
        IF r < 3 /\ (r + c) % 2 = 1 THEN -1
        ELSE IF r >= 5 /\ (r + c) % 2 = 0 THEN 1
        ELSE 0]]

InitialBoard ==
    [r \in Rows |-> [c \in Rows |->
        IF r < 3 /\ (r + c) % 2 = 1 THEN -1
        ELSE IF r >= 5 /\ (r + c) % 2 = 1 THEN 1
        ELSE 0]]

DefaultRules ==
    [mustCapture |-> TRUE,
     skipCapturePenaltyRemoveMoved |-> TRUE,
     multiCapture |-> "optional",
     flyingKingMove |-> TRUE,
     flyingKingCapture |-> TRUE,
     menBackwardCapture |-> FALSE]

createInitialState ==
    [board |-> InitialBoard,
     turn |-> 1,
     winner |-> 0,
     lastMove |-> Null,
     rules |-> DefaultRules]

\* ------------------------------------------------------------ rooms and sockets
\* Socket ids are 1 .. NumSockets; an empty seat holds NoSocket (null). A socket
\* that disconnects and connects again gets a new id in the code; since the
\* disconnect handler removes the old id from both seats, reusing the id here
\* is the same room state. Client ids are 1 .. NumClients, NoClient when the
\* joinRoom payload carries none.
NoSocket == 0
NoClient == 0
Sockets == 1 .. NumSockets
ClientIds == 1 .. NumClients
Seats == {"white", "black", "none"}

VARIABLES
    rooms,      \* the Map rooms: a function on {} or {FIXED_ROOM}
    emits,      \* the events the last handler emitted, in order
    moveCount   \* accepted moves of the current game (bounds the exploration)

vars == << rooms, emits, moveCount >>

hasRoom(rs) == FIXED_ROOM \in DOMAIN rs

newRoom ==
    [state |-> createInitialState,
     players |-> [white |-> NoSocket, black |-> NoSocket],
     clientMap |-> << >>]

\* getRoom: the map after the call (the room is created when missing).
getRoom(rs) == IF hasRoom(rs) THEN rs ELSE [id \in {FIXED_ROOM} |-> newRoom]

\* Map.prototype.set on clientMap.
mapSet(m, k, v) == [x \in (DOMAIN m) \cup {k} |-> IF x = k THEN v ELSE m[x]]

roleOf(room, socket) ==
    IF room.players.white = socket THEN "white"
    ELSE IF room.players.black = socket THEN "black"
    ELSE "spectator"

\* ------------------------------------------------------------ handlers
\* Each handler is a function of the map and its payload to the map after it
\* and the events it emitted.
joinRoom(rs, socket, seat, clientId) ==
    LET rs1 == getRoom(rs)
        room == rs1[FIXED_ROOM]
        known == clientId # NoClient /\ clientId \in DOMAIN room.clientMap
        \* known client: take the remembered role and its seat
        knownRole == room.clientMap[clientId]
        knownPlayers ==
            IF knownRole = "white" THEN [room.players EXCEPT !.white = socket]
            ELSE IF knownRole = "black" THEN [room.players EXCEPT !.black = socket]
            ELSE room.players
        \* unknown client: the requested seat when free ...
        seatRole ==
            IF seat = "white" /\ room.players.white = NoSocket THEN "white"
            ELSE IF seat = "black" /\ room.players.black = NoSocket THEN "black"
            ELSE "spectator"
        \* ... else the first free seat
        role ==
            IF seatRole # "spectator" THEN seatRole
            ELSE IF room.players.white = NoSocket THEN "white"
            ELSE IF room.players.black = NoSocket THEN "black"
            ELSE "spectator"
        players ==
            IF role = "white" THEN [room.players EXCEPT !.white = socket]
            ELSE IF role = "black" THEN [room.players EXCEPT !.black = socket]
            ELSE room.players
        clientMap ==
            IF clientId # NoClient /\ role \in {"white", "black"}
            THEN mapSet(room.clientMap, clientId, role)
            ELSE room.clientMap
        after ==
            IF known THEN [room EXCEPT !.players = knownPlayers]
            ELSE [room EXCEPT !.players = players, !.clientMap = clientMap]
    IN [rooms |-> [rs1 EXCEPT ![FIXED_ROOM] = after],
        emits |-> << "roomJoined", "presence" >>]

\* JavaScript truthiness of a payload value, written as its literal.
Falsy == {"false", "0", "''", "null", "undefined", "NaN"}
truthy(v) == v \notin Falsy

updateRules(rs, socket, rules) ==
    IF ~hasRoom(rs) THEN [rooms |-> rs, emits |-> << >>]
    ELSE LET room == rs[FIXED_ROOM]
         IN IF roleOf(room, socket) # "white" THEN [rooms |-> rs, emits |-> << >>]
            ELSE [rooms |-> [rs EXCEPT ![FIXED_ROOM].state.rules =
                     [mustCapture |-> truthy(rules.mustCapture),
                      skipCapturePenaltyRemoveMoved |->
                          truthy(rules.skipCapturePenaltyRemoveMoved),
                      multiCapture |->
                          IF rules.multiCapture = "'forced'" THEN "forced" ELSE "optional",
                      flyingKingMove |-> truthy(rules.flyingKingMove),
                      flyingKingCapture |-> truthy(rules.flyingKingCapture),
                      menBackwardCapture |-> truthy(rules.menBackwardCapture)]],
                  emits |-> << "state" >>]

\* from?.r and from?.c: Undefined when the payload has no such square.
coordR(p) == IF p = Null THEN Undefined ELSE p.r
coordC(p) == IF p = Null THEN Undefined ELSE p.c
isInteger(v) == v # Undefined

\* The end of the makeMove handler: the winner check on the state applyMove
\* returned, the store into the room and the broadcast.
commitMove(rs, next, w) ==
    [rooms |-> [rs EXCEPT ![FIXED_ROOM].state =
                   IF w # 0 THEN [next EXCEPT !.winner = w] ELSE next],
     emits |-> << "state" >>]

acceptMove(rs, next) == commitMove(rs, next, checkWinner(next))

\* Mutant of makeMove: a destination outside the legal sets is not turned away.
makeMove_noLegalityCheck(rs, socket, from, to) ==
    LET reject == [rooms |-> rs, emits |-> << >>]
    IN IF ~hasRoom(rs) THEN reject
       ELSE
       LET room == rs[FIXED_ROOM]
           role == roleOf(room, socket)
           side == IF role = "white" THEN 1 ELSE -1
           state == room.state
           fr == coordR(from)
           fc == coordC(from)
           tr == coordR(to)
           tc == coordC(to)
       IN IF role = "spectator" THEN reject
          ELSE IF state.winner # 0 THEN reject
          ELSE IF state.turn # side THEN reject
          ELSE IF ~(\A v \in {fr, fc, tr, tc} : isInteger(v)) THEN reject
          ELSE IF ~(\A v \in {fr, fc, tr, tc} : v >= 0 /\ v < BoardSize) THEN reject
          ELSE IF sign(state.board[fr][fc]) # side THEN reject
          ELSE IF state.board[tr][tc] # 0 THEN reject
          ELSE acceptMove(rs, applyMoveWithRules(state,
                                  [from |-> Sq(fr, fc), to |-> Sq(tr, tc)]))

\* Mutant of makeMove: the guard on the winner is missing.
makeMove_noWinnerGuard(rs, socket, from, to) ==
    LET reject == [rooms |-> rs, emits |-> << >>]
    IN IF ~hasRoom(rs) THEN reject
       ELSE
       LET room == rs[FIXED_ROOM]
           role == roleOf(room, socket)
           side == IF role = "white" THEN 1 ELSE -1
           state == room.state
           fr == coordR(from)
           fc == coordC(from)
           tr == coordR(to)
           tc == coordC(to)
       IN IF role = "spectator" THEN reject
          ELSE IF state.turn # side THEN reject
          ELSE IF ~(\A v \in {fr, fc, tr, tc} : isInteger(v)) THEN reject
          ELSE IF ~(\A v \in {fr, fc, tr, tc} : v >= 0 /\ v < BoardSize) THEN reject
          ELSE IF sign(state.board[fr][fc]) # side THEN reject
          ELSE IF state.board[tr][tc] # 0 THEN reject
          ELSE
          LET isCap == someTo(listCapturesForPiece(state.board, fr, fc, state.rules), tr, tc)
              isMove == someTo(listMovesForPiece(state.board, fr, fc, state.rules), tr, tc)
          IN IF ~isCap /\ ~isMove THEN reject
             ELSE acceptMove(rs, applyMoveWithRules(state,
                                     [from |-> Sq(fr, fc), to |-> Sq(tr, tc)]))

\* Mutant of makeMove: the guard on the turn is missing.
makeMove_noTurnGuard(rs, socket, from, to) ==
    LET reject == [rooms |-> rs, emits |-> << >>]
    IN IF ~hasRoom(rs) THEN reject
       ELSE
       LET room == rs[FIXED_ROOM]
           role == roleOf(room, socket)
           side == IF role = "white" THEN 1 ELSE -1
           state == room.state
           fr == coordR(from)
           fc == coordC(from)
           tr == coordR(to)
           tc == coordC(to)
       IN IF role = "spectator" THEN reject
          ELSE IF state.winner # 0 THEN reject
          ELSE IF ~(\A v \in {fr, fc, tr, tc} : isInteger(v)) THEN reject
          ELSE IF ~(\A v \in {fr, fc, tr, tc} : v >= 0 /\ v < BoardSize) THEN reject
          ELSE IF sign(state.board[fr][fc]) # side THEN reject
          ELSE IF state.board[tr][tc] # 0 THEN reject
          ELSE
          LET isCap == someTo(listCapturesForPiece(state.board, fr, fc, state.rules), tr, tc)
              isMove == someTo(listMovesForPiece(state.board, fr, fc, state.rules), tr, tc)
          IN IF ~isCap /\ ~isMove THEN reject
             ELSE acceptMove(rs, applyMoveWithRules(state,
                                     [from |-> Sq(fr, fc), to |-> Sq(tr, tc)]))

makeMove(rs, socket, from, to) ==
    LET reject == [rooms |-> rs, emits |-> << >>]
    IN IF ~hasRoom(rs) THEN reject
       ELSE
       LET room == rs[FIXED_ROOM]
           role == roleOf(room, socket)
           side == IF role = "white" THEN 1 ELSE -1
           state == room.state
           fr == coordR(from)
           fc == coordC(from)
           tr == coordR(to)
           tc == coordC(to)
       IN IF role = "spectator" THEN reject
          ELSE IF state.winner # 0 THEN reject
          ELSE IF state.turn # side THEN reject
          ELSE IF ~(\A v \in {fr, fc, tr, tc} : isInteger(v)) THEN reject
          ELSE IF ~(\A v \in {fr, fc, tr, tc} : v >= 0 /\ v < BoardSize) THEN reject
          ELSE IF sign(state.board[fr][fc]) # side THEN reject
          ELSE IF state.board[tr][tc] # 0 THEN reject
          ELSE
          LET isCap == someTo(listCapturesForPiece(state.board, fr, fc, state.rules), tr, tc)
              isMove == someTo(listMovesForPiece(state.board, fr, fc, state.rules), tr, tc)
          IN IF ~isCap /\ ~isMove THEN reject
             ELSE acceptMove(rs, applyMoveWithRules(state,
                                     [from |-> Sq(fr, fc), to |-> Sq(tr, tc)]))

\* Mutant of resetGame: the role of the sender is not looked at.
resetGame_anyRole(rs, socket) ==
    IF ~hasRoom(rs) THEN [rooms |-> rs, emits |-> << >>]
    ELSE [rooms |-> [rs EXCEPT ![FIXED_ROOM].state = createInitialState],
          emits |-> << "state" >>]

resetGame(rs, socket) ==
    IF ~hasRoom(rs) THEN [rooms |-> rs, emits |-> << >>]
    ELSE IF roleOf(rs[FIXED_ROOM], socket) = "spectator"
         THEN [rooms |-> rs, emits |-> << >>]
         ELSE [rooms |-> [rs EXCEPT ![FIXED_ROOM].state = createInitialState],
               emits |-> << "state" >>]

disconnect(rs, socket) ==
    IF ~hasRoom(rs) THEN [rooms |-> rs, emits |-> << >>]
    ELSE LET room == rs[FIXED_ROOM]
             white == IF room.players.white = socket THEN NoSocket ELSE room.players.white
             black == IF room.players.black = socket THEN NoSocket ELSE room.players.black
             changed == room.players.white = socket \/ room.players.black = socket
         IN [rooms |-> [rs EXCEPT ![FIXED_ROOM].players = [white |-> white, black |-> black]],
             emits |-> IF changed THEN << "presence" >> ELSE << >>]

\* ------------------------------------------------------------ inputs
\* makeMove payload squares: every square of the board, and malformed ones
\* (missing, off the board on each side, not an integer).
BadPoints ==
    { Null, Sq(-1, 2), Sq(3, BoardSize), Sq(BoardSize, 1), Sq(Undefined, 1), Sq(2, Undefined) }
Points == Squares \cup BadPoints

\* The squares the client highlights for the piece on (r, c): computeLegalTargets
\* adds the landing of every capture and every simple move.
computeLegalTargets(state, r, c) ==
    LET caps == listCapturesForPiece(state.board, r, c, state.rules)
        moves == listMovesForPiece(state.board, r, c, state.rules)
    IN { caps[i].to : i \in 1 .. Len(caps) } \cup { moves[i].to : i \in 1 .. Len(moves) }

\* The makeMove payloads a socket submits: a click on a highlighted target of
\* one of its own pieces (the client highlights only for the seated side to
\* move while there is no winner), and payloads no well-behaved client sends
\* (StrayPayloads): malformed squares, an empty or light source square, the
\* opponent's piece, an occupied or unreachable destination.
ClickPayloads(rs, socket) ==
    IF ~hasRoom(rs) THEN {}
    ELSE LET state == rs[FIXED_ROOM].state
             role == roleOf(rs[FIXED_ROOM], socket)
             side == IF role = "white" THEN 1 ELSE IF role = "black" THEN -1 ELSE 0
         IN IF side = 0 \/ state.winner # 0 \/ state.turn # side THEN {}
            ELSE UNION { { [from |-> sq, to |-> t] :
                              t \in computeLegalTargets(state, sq.r, sq.c) } :
                         sq \in { q \in Squares : sign(state.board[q.r][q.c]) = side } }
StrayPayloads ==
    { [from |-> Null, to |-> Sq(4, 1)], [from |-> Sq(5, 0), to |-> Sq(3, BoardSize)],
      [from |-> Sq(2, 1), to |-> Sq(3, 2)], [from |-> Sq(5, 0), to |-> Sq(3, 2)] }

\* updateRules payloads: the six fields as JavaScript literals.
payload(mc, sk, mu, fm, fc, mb) ==
    [mustCapture |-> mc, skipCapturePenaltyRemoveMoved |-> sk, multiCapture |-> mu,
     flyingKingMove |-> fm, flyingKingCapture |-> fc, menBackwardCapture |-> mb]
RulePayloads ==
    { payload("1", "''", "'forced'", "0", "null", "'all'"),
      payload("true", "true", "'optional'", "true", "true", "false") }

\* ------------------------------------------------------------ actions
Init ==
    /\ rooms = << >>
    /\ emits = << >>
    /\ moveCount = 0

JoinRoom(socket, seat, clientId) ==
    LET res == joinRoom(rooms, socket, seat, clientId)
    IN /\ rooms' = res.rooms
       /\ emits' = res.emits
       /\ UNCHANGED moveCount

UpdateRules(socket, rules) ==
    LET res == updateRules(rooms, socket, rules)
    IN /\ rooms' = res.rooms
       /\ emits' = res.emits
       /\ UNCHANGED moveCount

\* An accepted move is explored while the game has fewer than MaxMoves of them.
MakeMove(socket, from, to) ==
    LET res == makeMove(rooms, socket, from, to)
    IN /\ res.emits # << >> => moveCount < MaxMoves
       /\ rooms' = res.rooms
       /\ emits' = res.emits
       /\ moveCount' = IF res.emits # << >> THEN moveCount + 1 ELSE moveCount

\* A reset starts a new game.
ResetGame(socket) ==
    LET res == resetGame(rooms, socket)
    IN /\ rooms' = res.rooms
       /\ emits' = res.emits
       /\ moveCount' = IF res.emits # << >> THEN 0 ELSE moveCount

Disconnect(socket) ==
    LET res == disconnect(rooms, socket)
    IN /\ rooms' = res.rooms
       /\ emits' = res.emits
       /\ UNCHANGED moveCount

Next ==
    \/ \E socket \in Sockets, seat \in Seats, clientId \in {NoClient} \cup ClientIds :
           JoinRoom(socket, seat, clientId)
    \/ \E socket \in Sockets, rules \in RulePayloads : UpdateRules(socket, rules)
    \/ \E socket \in Sockets :
           \E p \in ClickPayloads(rooms, socket) \cup StrayPayloads :
               MakeMove(socket, p.from, p.to)
    \/ \E socket \in Sockets : ResetGame(socket)
    \/ \E socket \in Sockets : Disconnect(socket)

Spec == Init /\ [][Next]_vars

\* ------------------------------------------------------------ positions of play
\* A board from the pieces standing on it, each << row, column, piece >>.
boardOf(pieces) ==
    [r \in Rows |-> [c \in Rows |->
        IF \E p \in pieces : p[1] = r /\ p[2] = c
        THEN (CHOOSE p \in pieces : p[1] = r /\ p[2] = c)[3]
        ELSE 0]]

\* Positions of the middle and the end of a game: pieces on dark squares only,
\* no man on its far row, at most 12 pieces a side.
\* Capture or forfeit: a white man that can jump the only black man, and a
\* second white man that cannot.
TwoMenChase == boardOf({ <<3, 2, 1>>, <<5, 6, 1>>, <<2, 3, -1>> })
\* A black king in the corner that one white step locks in.
CornerLock == boardOf({ <<6, 1, 1>>, <<6, 3, 1>>, <<7, 0, -2>> })
\* Men one step or one jump from their far row, on both sides.
PromotionRace ==
    boardOf({ <<1, 2, 1>>, <<2, 5, 1>>, <<6, 1, 1>>, <<1, 4, -1>>, <<6, 5, -1>>, <<5, 2, -1>> })
\* A white king with an enemy on three rays (one, three and no landing
\* squares) and a friend on the fourth.
KingRays ==
    boardOf({ <<4, 3, 2>>, <<5, 4, 1>>, <<2, 1, -1>>, <<3, 4, -1>>, <<5, 2, -2>>, <<6, 1, -1>> })
\* Two enemies on one ray with empty squares between them; a black king
\* behind a white man.
LongDiagonal ==
    boardOf({ <<7, 0, 2>>, <<1, 6, 1>>, <<5, 2, -1>>, <<3, 4, -1>>, <<0, 7, -2>> })
\* Men with an enemy in front and an enemy behind.
BackwardJump == boardOf({ <<3, 4, 1>>, <<1, 4, 1>>, <<2, 3, -1>>, <<4, 5, -1>> })
\* Pieces on the edge columns and rows.
Edges ==
    boardOf({ <<4, 7, 1>>, <<7, 6, 2>>, <<3, 6, -1>>, <<0, 1, -2>>, <<6, 7, -1>> })
\* The last man of each side, face to face.
LastMen == boardOf({ <<5, 4, 1>>, <<4, 3, -1>> })
\* A white man with no move left behind the black home row.
Blocked == boardOf({ <<1, 2, 1>>, <<0, 1, -1>>, <<0, 3, -1>>, <<2, 5, -1>> })
\* A white king with enemies on all four neighbours.
Surrounded ==
    boardOf({ <<3, 2, 2>>, <<2, 1, -1>>, <<2, 3, -1>>, <<4, 1, -1>>, <<4, 3, -1>>,
              <<5, 4, -1>>, <<7, 6, -2>> })
\* A black king with a long landing run, a white king bounding it.
LongLanding == boardOf({ <<2, 7, -2>>, <<1, 0, -1>>, <<4, 5, 1>>, <<7, 2, 2>> })
\* A black man that one white step leaves without a move, and that could jump
\* backward over the man that stepped if men captured backward.
LateRuleChange == boardOf({ <<7, 6, 1>>, <<6, 5, 1>>, <<6, 7, -1>> })

AllRules ==
    [mustCapture : BOOLEAN,
     skipCapturePenaltyRemoveMoved : BOOLEAN,
     multiCapture : {"optional", "forced"},
     flyingKingMove : BOOLEAN,
     flyingKingCapture : BOOLEAN,
     menBackwardCapture : BOOLEAN]

GenBoards ==
    { TwoMenChase, CornerLock, PromotionRace, KingRays, LongDiagonal, BackwardJump,
      Edges, LastMen, Blocked, Surrounded, LongLanding }

\* A game in progress on one of the positions, either side to move, under any
\* rule configuration, no winner yet; and the game before its first move.
positionState(board, turn, rules) ==
    [board |-> board, turn |-> turn, winner |-> 0, lastMove |-> Null, rules |-> rules]
GenStates ==
    { st \in { positionState(b, t, ru) : b \in GenBoards, t \in {1, -1}, ru \in AllRules } :
         checkWinner(st) = 0 }
    \cup { [createInitialState EXCEPT !.rules = ru] : ru \in AllRules }

\* The room with the game in state st and the seats held by players.
roomAt(st, players) ==
    [id \in {FIXED_ROOM} |-> [state |-> st, players |-> players, clientMap |-> << >>]]

\* SpecGen: one makeMove on a drawn position, sockets 1 and 2 seated as White
\* and Black.
InitGen ==
    /\ rooms \in { roomAt(st, [white |-> 1, black |-> 2]) : st \in GenStates }
    /\ emits = << >>
    /\ moveCount = MaxMoves - 1

NextGen ==
    \E socket \in Sockets :
        \E p \in ClickPayloads(rooms, socket) \cup StrayPayloads :
            MakeMove(socket, p.from, p.to)

SpecGen == InitGen /\ [][NextGen]_vars

\* SpecMid: the whole room late in a game under the default rules, both
\* players seated.
MidStates ==
    { positionState(b, 1, DefaultRules) : b \in { TwoMenChase, CornerLock, LateRuleChange } }

InitMid ==
    /\ rooms \in { roomAt(st, [white |-> 1, black |-> 2]) : st \in MidStates }
    /\ emits = << >>
    /\ moveCount = 0

SpecMid == InitMid /\ [][Next]_vars

\* ============================================================ claims
\* The game state of the room, and what the claims read off a board.
game == rooms[FIXED_ROOM].state
pieceAt(board, sq) == board[sq.r][sq.c]
Dirs == { <<-1, -1>>, <<-1, 1>>, <<1, -1>>, <<1, 1>> }
\* The square k diagonal steps from sq in direction d (possibly off the board).
along(sq, d, k) == Sq(sq.r + k * d[1], sq.c + k * d[2])
toSet(list) == { list[i] : i \in 1 .. Len(list) }
targets(list) == { list[i].to : i \in 1 .. Len(list) }
jumps(list) == { [over |-> list[i].over, to |-> list[i].to] : i \in 1 .. Len(list) }
\* Toward row 0 for White, toward row 7 for Black.
forwardOf(side) == IF side = 1 THEN -1 ELSE 1

\* C6: every capture legalCaptures returns for an occupied square lands on an
\* in-bounds empty square and jumps a square holding a piece of the other
\* side that lies strictly between source and landing on one diagonal.
C6_CapturesAreSound ==
    hasRoom(rooms) =>
        \A sq \in Squares :
            pieceAt(game.board, sq) # 0 =>
                \A cp \in toSet(listCapturesForPiece(game.board, sq.r, sq.c, game.rules)) :
                    /\ cp.from = sq
                    /\ cp.to \in Squares
                    /\ pieceAt(game.board, cp.to) = 0
                    /\ cp.over \in Squares
                    /\ sign(pieceAt(game.board, cp.over)) = -sign(pieceAt(game.board, sq))
                    /\ \E d \in Dirs, k \in 2 .. LastRow :
                           /\ cp.to = along(sq, d, k)
                           /\ \E j \in 1 .. (k - 1) : cp.over = along(sq, d, j)

\* A position reached by a move in which a man and a flying king both have a
\* capture.
C6_Witness ==
    /\ hasRoom(rooms)
    /\ game.lastMove # Null
    /\ game.rules.flyingKingCapture
    /\ \E sq \in Squares :
           /\ isKing(pieceAt(game.board, sq))
           /\ Len(listCapturesForPiece(game.board, sq.r, sq.c, game.rules)) > 1
    /\ \E sq \in Squares :
           /\ pieceAt(game.board, sq) \in {1, -1}
           /\ Len(listCapturesForPiece(game.board, sq.r, sq.c, game.rules)) > 0

\* The squares of the ray from sq in direction d, as distances 1 .. 7 that stay
\* on the board, and the distance of the first piece on it (0 when none).
onRay(sq, d) == { k \in 1 .. LastRow : along(sq, d, k) \in Squares }
firstPiece(board, sq, d) ==
    LET hit == { k \in onRay(sq, d) : pieceAt(board, along(sq, d, k)) # 0 }
    IN IF hit = {} THEN 0 ELSE CHOOSE k \in hit : \A j \in hit : k <= j
\* The flying captures the claim allows on one ray.
rayJumps(board, sq, d) ==
    LET j == firstPiece(board, sq, d)
    IN IF j = 0 \/ sign(pieceAt(board, along(sq, d, j))) # -sign(pieceAt(board, sq))
       THEN {}
       ELSE { [over |-> along(sq, d, j), to |-> along(sq, d, k)] :
                 k \in { k \in onRay(sq, d) :
                            /\ k > j
                            /\ \A m \in (j + 1) .. k : pieceAt(board, along(sq, d, m)) = 0 } }

\* C9: with flyingKingCapture, the captures of a king are exactly, on each of
\* the 4 rays whose first piece is an enemy, one capture over that enemy per
\* empty square beyond it up to the next piece or the edge, each listed once.
C9_FlyingKingCaptures ==
    hasRoom(rooms) =>
        \A sq \in Squares :
            isKing(pieceAt(game.board, sq)) =>
                LET caps == listKingCaptures(game.board, sq.r, sq.c,
                                             sign(pieceAt(game.board, sq)), TRUE)
                IN /\ jumps(caps) = UNION { rayJumps(game.board, sq, d) : d \in Dirs }
                   /\ Len(caps) = Cardinality(jumps(caps))
                   /\ \A cp \in toSet(caps) : cp.from = sq

\* A king with an enemy followed by three empty squares on one ray, and with
\* an enemy on another ray that is followed at once by a second piece.
C9_Witness ==
    /\ hasRoom(rooms)
    /\ game.rules.flyingKingCapture
    /\ \E sq \in Squares, d \in Dirs, e \in Dirs :
           /\ isKing(pieceAt(game.board, sq))
           /\ Cardinality(rayJumps(game.board, sq, d)) >= 3
           /\ someTo(listCapturesForPiece(game.board, sq.r, sq.c, game.rules),
                     along(sq, d, 4).r, along(sq, d, 4).c)
           /\ firstPiece(game.board, sq, e) = 1
           /\ sign(pieceAt(game.board, along(sq, e, 1))) = -sign(pieceAt(game.board, sq))
           /\ along(sq, e, 2) \in Squares
           /\ pieceAt(game.board, along(sq, e, 2)) # 0

\* The simple moves and the captures the claim allows a man on sq.
manSteps(board, sq) ==
    { t \in { Sq(sq.r + forwardOf(sign(pieceAt(board, sq))), sq.c + dc) : dc \in {-1, 1} } :
         t \in Squares /\ pieceAt(board, t) = 0 }
manJumps(board, sq, backward) ==
    LET side == sign(pieceAt(board, sq))
        drs == IF backward THEN {-1, 1} ELSE {forwardOf(side)}
    IN { j \in { [over |-> Sq(sq.r + dr, sq.c + dc), to |-> Sq(sq.r + 2 * dr, sq.c + 2 * dc)] :
                    dr \in drs, dc \in {-1, 1} } :
            /\ j.to \in Squares
            /\ pieceAt(board, j.to) = 0
            /\ sign(pieceAt(board, j.over)) = -side }

\* C10: a man's simple moves are the empty forward diagonal neighbours whatever
\* menBackwardCapture is; its captures are the forward jumps when the flag is
\* false and the forward and backward jumps when it is true. On the initial
\* board under the default rules no piece has a capture and the man on (5,0)
\* has the one simple move to (4,1).
C10_BackwardCaptureAsymmetry ==
    hasRoom(rooms) =>
        /\ \A sq \in Squares, flag \in BOOLEAN :
               pieceAt(game.board, sq) \in {1, -1} =>
                   LET rules == [game.rules EXCEPT !.menBackwardCapture = flag]
                       moves == listMovesForPiece(game.board, sq.r, sq.c, rules)
                       caps == listCapturesForPiece(game.board, sq.r, sq.c, rules)
                   IN /\ targets(moves) = manSteps(game.board, sq)
                      /\ Len(moves) = Cardinality(manSteps(game.board, sq))
                      /\ jumps(caps) = manJumps(game.board, sq, flag)
                      /\ Len(caps) = Cardinality(manJumps(game.board, sq, flag))
        /\ game = createInitialState =>
               /\ \A sq \in Squares :
                      listCapturesForPiece(game.board, sq.r, sq.c, game.rules) = << >>
               /\ targets(listMovesForPiece(game.board, 5, 0, game.rules)) = { Sq(4, 1) }

\* A position reached by a move, under menBackwardCapture, in which a man has
\* a forward and a backward capture and an empty square diagonally behind it.
C10_Witness ==
    /\ hasRoom(rooms)
    /\ game.lastMove # Null
    /\ game.rules.menBackwardCapture
    /\ \E sq \in Squares :
           /\ pieceAt(game.board, sq) \in {1, -1}
           /\ Cardinality(manJumps(game.board, sq, TRUE)) >= 2
           /\ manJumps(game.board, sq, FALSE) # {}
           /\ manJumps(game.board, sq, FALSE) # manJumps(game.board, sq, TRUE)
           /\ \E dc \in {-1, 1} :
                  LET back == Sq(sq.r - forwardOf(sign(pieceAt(game.board, sq))), sq.c + dc)
                  IN back \in Squares /\ pieceAt(game.board, back) = 0

\* ------------------------------------------------ claims on accepted moves
\* The socket seated on a side, the squares a side holds, and the payloads the
\* handler accepts from the side to move: an own piece and a destination in
\* its legalCaptures or legalSimpleMoves.
seated(side) ==
    IF side = 1 THEN rooms[FIXED_ROOM].players.white ELSE rooms[FIXED_ROOM].players.black
held(board, side) == { sq \in Squares : sign(pieceAt(board, sq)) = side }
capTargets(st, sq) == targets(listCapturesForPiece(st.board, sq.r, sq.c, st.rules))
moveTargets(st, sq) == targets(listMovesForPiece(st.board, sq.r, sq.c, st.rules))
legalPayloads(st) ==
    UNION { { [from |-> sq, to |-> t] : t \in capTargets(st, sq) \cup moveTargets(st, sq) } :
               sq \in held(st.board, st.turn) }
\* The room is in play and the side to move is seated.
inPlay == hasRoom(rooms) /\ game.winner = 0 /\ seated(game.turn) # NoSocket
\* The state after the handler has run on p, sent by the side to move.
afterMove(p) == makeMove(rooms, seated(game.turn), p.from, p.to).rooms[FIXED_ROOM].state
\* The condition of the penalty in the words of the claim.
captureOpen(st, side) == \E sq \in held(st.board, side) : capTargets(st, sq) # {}
forfeits(st, p) ==
    /\ st.rules.mustCapture
    /\ st.rules.skipCapturePenaltyRemoveMoved
    /\ captureOpen(st, sign(pieceAt(st.board, p.from)))
    /\ p.to \notin capTargets(st, p.from)
farRow(side) == IF side = 1 THEN 0 ELSE LastRow

\* C4: under mustCapture and skipCapturePenaltyRemoveMoved, when some piece of
\* the moving side had a capture on the pre-move board and the submitted move
\* is not a capture, then after applyMove the destination and the source are
\* empty and the turn has flipped.
C4_PenaltyForfeitsMovedPiece ==
    inPlay =>
        \A p \in legalPayloads(game) :
            forfeits(game, p) =>
                LET next == applyMoveWithRules(game, p)
                IN /\ pieceAt(next.board, p.to) = 0
                   /\ pieceAt(next.board, p.from) = 0
                   /\ next.turn = -game.turn
                   /\ afterMove(p).board = next.board
                   /\ afterMove(p).turn = next.turn

\* A position reached by a penalised move: the last move took nothing, its
\* destination is empty, and the side that moved still has pieces.
C4_Witness ==
    /\ hasRoom(rooms)
    /\ game.lastMove # Null
    /\ game.lastMove.penaltyRemoved
    /\ game.lastMove.captured = Null
    /\ pieceAt(game.board, game.lastMove.to) = 0
    /\ game.rules.mustCapture /\ game.rules.skipCapturePenaltyRemoveMoved
    /\ held(game.board, -game.turn) # {}

\* The promotion clauses of C5 for one accepted payload, given what stands on
\* the destination afterwards.
promotionRule(piece, to, landed) ==
    /\ (~isKing(piece) /\ to.r = farRow(sign(piece))) => landed = 2 * sign(piece)
    /\ (isKing(piece) /\ to.r = farRow(sign(piece))) => landed = piece
    /\ (~isKing(piece) /\ to.r # farRow(sign(piece))) => landed = piece

\* C5 as stated: a man landing on its far row always becomes a king of its
\* side, a king landing there stays that king, a man landing elsewhere stays a
\* man.
C5_PromotionAlways ==
    inPlay =>
        \A p \in legalPayloads(game) :
            promotionRule(pieceAt(game.board, p.from), p.to,
                          pieceAt(afterMove(p).board, p.to))

\* C5, amended: the promotion clauses hold for every accepted move that is not
\* a penalised non-capture; after a penalised non-capture the destination is
\* empty, whatever landed on it.
C5_PromotionUnlessForfeited ==
    inPlay =>
        \A p \in legalPayloads(game) :
            IF forfeits(game, p)
            THEN pieceAt(afterMove(p).board, p.to) = 0
            ELSE promotionRule(pieceAt(game.board, p.from), p.to,
                               pieceAt(afterMove(p).board, p.to))

\* A position in which one man can reach its far row by a move that promotes
\* it and another (or the same under other moves) by a move that forfeits it.
C5_Witness ==
    /\ inPlay
    /\ \E p \in legalPayloads(game) :
           /\ pieceAt(game.board, p.from) \in {1, -1}
           /\ p.to.r = farRow(game.turn)
           /\ forfeits(game, p)
           /\ pieceAt(afterMove(p).board, p.to) = 0
    /\ \E p \in legalPayloads(game) :
           /\ pieceAt(game.board, p.from) \in {1, -1}
           /\ p.to.r = farRow(game.turn)
           /\ ~forfeits(game, p)
           /\ pieceAt(afterMove(p).board, p.to) = 2 * game.turn

\* The winner the claim prescribes for a position with st.turn to move.
stuck(st, side) ==
    \A sq \in held(st.board, side) : capTargets(st, sq) = {} /\ moveTargets(st, sq) = {}
prescribedWinner(st) ==
    IF held(st.board, -1) = {} /\ held(st.board, 1) # {} THEN 1
    ELSE IF held(st.board, 1) = {} /\ held(st.board, -1) # {} THEN -1
    ELSE IF held(st.board, st.turn) # {} /\ stuck(st, st.turn) THEN -st.turn
    ELSE 0

\* C8: after every accepted move the winner is White when Black has no piece,
\* Black when White has no piece, else the other side when the side now to
\* move has pieces but no capture and no simple move, else None.
C8_TerminalDetection ==
    inPlay =>
        \A p \in legalPayloads(game) :
            /\ makeMove(rooms, seated(game.turn), p.from, p.to).emits = << "state" >>
            /\ afterMove(p).winner = prescribedWinner(afterMove(p))

\* Positions reached by an accepted move: one won by taking the last enemy
\* piece, or by forfeiting the mover's last piece, or by leaving the side to
\* move stuck with pieces on the board.
C8_Witness ==
    /\ hasRoom(rooms)
    /\ game.lastMove # Null
    /\ game.winner = -game.turn
    /\ held(game.board, game.turn) # {}
    /\ stuck(game, game.turn)

\* ------------------------------------------------ claims on every submission
\* The side a socket plays (0 for a socket without a seat), and whether the
\* payload names an own piece and a destination legal for it.
ownSide(socket) ==
    IF rooms[FIXED_ROOM].players.white = socket THEN 1
    ELSE IF rooms[FIXED_ROOM].players.black = socket THEN -1
    ELSE 0
offBoard(from, to) == from \notin Squares \/ to \notin Squares
notLegal(from, to) == to \notin (capTargets(game, from) \cup moveTargets(game, from))
\* The reasons for which the claim has a makeMove rejected.
rejected(socket, from, to) ==
    \/ ownSide(socket) = 0
    \/ ownSide(socket) # game.turn
    \/ game.winner # 0
    \/ offBoard(from, to)
    \/ sign(pieceAt(game.board, from)) # ownSide(socket)
    \/ pieceAt(game.board, to) # 0
    \/ notLegal(from, to)
turnAfter(res) == res.rooms[FIXED_ROOM].state.turn

\* C1: an accepted makeMove sets turn to the opposite side, a rejected one
\* (wrong seat, wrong turn, winner set, out of bounds, not own piece, occupied
\* destination, target not legal) leaves it as it is, and joinRoom,
\* updateRules and disconnect never change it.
C1_TurnAlternation ==
    hasRoom(rooms) =>
        /\ \A socket \in Sockets, from \in Points, to \in Points :
               LET res == makeMove(rooms, socket, from, to)
               IN IF rejected(socket, from, to)
                  THEN turnAfter(res) = game.turn /\ res.emits = << >>
                  ELSE turnAfter(res) = -game.turn /\ res.emits = << "state" >>
        /\ \A socket \in Sockets :
               /\ \A seat \in Seats, clientId \in ClientIds \cup {NoClient} :
                      turnAfter(joinRoom(rooms, socket, seat, clientId)) = game.turn
               /\ \A rules \in RulePayloads :
                      turnAfter(updateRules(rooms, socket, rules)) = game.turn
               /\ turnAfter(disconnect(rooms, socket)) = game.turn
               /\ turnAfter(resetGame(rooms, socket)) \in {game.turn, 1}

\* A position reached by a penalised move, with the turn passed to the other
\* side, in which that side has a capture to make.
C1_Witness ==
    /\ hasRoom(rooms)
    /\ game.lastMove # Null
    /\ emits = << "state" >>
    /\ game.lastMove.penaltyRemoved
    /\ game.winner = 0
    /\ sign(pieceAt(game.board, game.lastMove.from)) = 0
    /\ \E sq \in held(game.board, game.turn) : capTargets(game, sq) # {}

\* The payloads C7 speaks of: coordinates that are not integers of the board,
\* a source that is empty or holds a piece of the other side, an occupied
\* destination, or a destination outside the legal sets of the source.
badPayload(socket, from, to) ==
    \/ offBoard(from, to)
    \/ pieceAt(game.board, from) = 0
    \/ sign(pieceAt(game.board, from)) = -ownSide(socket)
    \/ pieceAt(game.board, to) # 0
    \/ notLegal(from, to)

\* C7: a makeMove with such a payload leaves the whole room as it is (board,
\* turn, winner, lastMove, rules) and emits no state message.
C7_SilentRejection ==
    hasRoom(rooms) =>
        \A socket \in Sockets, from \in Points, to \in Points :
            badPayload(socket, from, to) =>
                makeMove(rooms, socket, from, to) = [rooms |-> rooms, emits |-> << >>]

\* A room in which a move has been played and the submission that followed
\* it, though sent by the side to move, was answered by nothing.
C7_Witness ==
    /\ hasRoom(rooms)
    /\ game.lastMove # Null
    /\ game.winner = 0
    /\ seated(game.turn) # NoSocket
    /\ emits = << >>
    /\ moveCount = MaxMoves
    /\ \E p \in StrayPayloads : badPayload(seated(game.turn), p.from, p.to)

\* ------------------------------------------------ claims on a finished game
unchanged(res) == res = [rooms |-> rooms, emits |-> << >>]
frozen(st, next) ==
    /\ next.board = st.board
    /\ next.turn = st.turn
    /\ next.lastMove = st.lastMove

\* C2: while winner is not None every makeMove, whatever the socket and the
\* payload, is rejected; board, turn and lastMove change in no step taken
\* while the winner is set, except in one that puts a fresh GameState in
\* place.
C2_NoMoveAfterWin ==
    /\ [](hasRoom(rooms) /\ game.winner # 0 =>
             \A socket \in Sockets, from \in Points, to \in Points :
                 unchanged(makeMove(rooms, socket, from, to)))
    /\ [][hasRoom(rooms) /\ game.winner # 0 =>
             \/ frozen(game, game') /\ game'.winner = game.winner
             \/ game' = createInitialState]_vars

\* A won game in which the side to move is seated and, the rules having been
\* changed since the winning move, has a piece with a legal destination: only
\* the set winner stands between its makeMove and the board.
C2_Witness ==
    /\ hasRoom(rooms)
    /\ game.winner # 0
    /\ game.lastMove # Null
    /\ seated(game.turn) # NoSocket
    /\ legalPayloads(game) # {}
    /\ \A p \in legalPayloads(game) :
           unchanged(makeMove(rooms, seated(game.turn), p.from, p.to))

\* The initial GameState in the words of the claim.
freshBoard ==
    [r \in Rows |-> [c \in Rows |->
        IF (r + c) % 2 = 1 /\ r <= 2 THEN -1
        ELSE IF (r + c) % 2 = 1 /\ r >= 5 THEN 1
        ELSE 0]]
freshState ==
    [board |-> freshBoard, turn |-> 1, winner |-> 0, lastMove |-> Null,
     rules |-> DefaultRules]
winnerAfter(res) == res.rooms[FIXED_ROOM].state.winner

\* C3: once winner is White or Black, makeMove, updateRules, joinRoom and
\* disconnect keep it, from any socket; resetGame from a seated player puts the
\* initial GameState in place and resetGame from a spectator changes nothing;
\* and in no step does a set winner change other than to None in a step that
\* leaves the initial GameState.
C3_OnlyResetClearsWinner ==
    /\ [](hasRoom(rooms) =>
             \A socket \in Sockets :
                 /\ IF ownSide(socket) # 0
                    THEN /\ resetGame(rooms, socket).rooms[FIXED_ROOM].state = freshState
                         /\ resetGame(rooms, socket).rooms[FIXED_ROOM].players
                                = rooms[FIXED_ROOM].players
                    ELSE unchanged(resetGame(rooms, socket))
                 /\ game.winner # 0 =>
                        /\ \A p \in StrayPayloads \cup legalPayloads(game)
                                       \cup legalPayloads([game EXCEPT !.turn = -game.turn]) :
                               winnerAfter(makeMove(rooms, socket, p.from, p.to)) = game.winner
                        /\ \A rules \in RulePayloads :
                               winnerAfter(updateRules(rooms, socket, rules)) = game.winner
                        /\ \A seat \in Seats, clientId \in ClientIds \cup {NoClient} :
                               winnerAfter(joinRoom(rooms, socket, seat, clientId)) = game.winner
                        /\ winnerAfter(disconnect(rooms, socket)) = game.winner)
    /\ [][hasRoom(rooms) /\ game.winner # 0 /\ game'.winner # game.winner =>
             game' = freshState /\ \E socket \in Sockets : ownSide(socket) # 0]_vars

\* A won game with one socket seated and another not: the reset of the first
\* clears the winner, the reset of the second does not.
C3_Witness ==
    /\ hasRoom(rooms)
    /\ game.winner # 0
    /\ \E socket \in Sockets :
           /\ ownSide(socket) # 0
           /\ winnerAfter(resetGame(rooms, socket)) = 0
    /\ \E socket \in Sockets :
           /\ ownSide(socket) = 0
           /\ winnerAfter(resetGame(rooms, socket)) = game.winner

\* ------------------------------------------------ claims on the board
playable(board) == \A sq \in Squares : pieceAt(board, sq) # 0 => (sq.r + sq.c) % 2 = 1
boardAfter(res) == res.rooms[FIXED_ROOM].state.board

\* C11: pieces stand on playable squares only, (row + col) odd: on the board
\* of the room, before and after an accepted move, and on the board every
\* rule update and every reset leaves.
C11_PlayableSquaresOnly ==
    hasRoom(rooms) =>
        /\ playable(game.board)
        /\ \A socket \in Sockets :
               /\ playable(boardAfter(resetGame(rooms, socket)))
               /\ \A rules \in RulePayloads :
                      playable(boardAfter(updateRules(rooms, socket, rules)))

\* A position reached by a king's capture that landed three or more squares
\* away.
C11_Witness ==
    /\ hasRoom(rooms)
    /\ game.lastMove # Null
    /\ game.lastMove.captured # Null
    /\ isKing(pieceAt(game.board, game.lastMove.to))
    /\ game.lastMove.to.r - game.lastMove.from.r \in {-5, -4, -3, 3, 4, 5}
    /\ playable(game.board)

\* The simple moves the claim allows a king on sq.
kingSlides(board, sq) ==
    { along(sq, d[1], d[2]) :
         d \in { e \in Dirs \X (1 .. LastRow) :
                    /\ e[2] \in onRay(sq, e[1])
                    /\ \A m \in 1 .. e[2] : pieceAt(board, along(sq, e[1], m)) = 0 } }
kingSteps(board, sq) ==
    { t \in { along(sq, d, 1) : d \in Dirs } : t \in Squares /\ pieceAt(board, t) = 0 }

\* C16: with flyingKingMove a king's simple moves go to exactly the empty
\* squares of each ray before its first piece or the edge; without it, to
\* exactly the empty diagonal neighbours on the board; each destination once.
C16_KingSimpleMoves ==
    hasRoom(rooms) =>
        \A sq \in Squares :
            isKing(pieceAt(game.board, sq)) =>
                /\ \A flying \in BOOLEAN :
                       LET moves == listKingMoves(game.board, sq.r, sq.c, flying)
                           allowed == IF flying THEN kingSlides(game.board, sq)
                                      ELSE kingSteps(game.board, sq)
                       IN /\ targets(moves) = allowed
                          /\ Len(moves) = Cardinality(allowed)
                          /\ \A mv \in toSet(moves) : mv.from = sq
                /\ moveTargets(game, sq) =
                       IF game.rules.flyingKingMove THEN kingSlides(game.board, sq)
                       ELSE kingSteps(game.board, sq)

\* A king, under flyingKingMove, with a ray of three or more empty squares
\* that ends at a piece with an empty square behind it.
C16_Witness ==
    /\ hasRoom(rooms)
    /\ game.rules.flyingKingMove
    /\ \E sq \in Squares, d \in Dirs :
           /\ isKing(pieceAt(game.board, sq))
           /\ firstPiece(game.board, sq, d) >= 4
           /\ along(sq, d, firstPiece(game.board, sq, d) + 1) \in Squares
           /\ pieceAt(game.board, along(sq, d, firstPiece(game.board, sq, d) + 1)) = 0
           /\ Cardinality(kingSlides(game.board, sq)) > Cardinality(kingSteps(game.board, sq))
           /\ along(sq, d, 3) \in moveTargets(game, sq)

\* ------------------------------------------------ claims on what a move does
\* The rules with multiCapture set to its other value, and the room under them.
otherMulti(rules) ==
    [rules EXCEPT !.multiCapture = IF @ = "optional" THEN "forced" ELSE "optional"]
twinRooms == [rooms EXCEPT ![FIXED_ROOM].state.rules = otherMulti(@)]
sameOutcome(a, b) ==
    /\ a.board = b.board
    /\ a.turn = b.turn
    /\ a.winner = b.winner
    /\ a.lastMove = b.lastMove
inert(p, next, twin) ==
    /\ sameOutcome(next, twin)
    /\ next.turn = -game.turn

\* C14: the captures and simple moves of every piece, and board, turn, winner
\* and lastMove after every accepted move, are the same under multiCapture
\* "optional" and "forced"; every accepted move, a capture that could be
\* followed by another included, passes the turn, in what the handler returns
\* and in every step that applies a move.
C14_MultiCaptureInert ==
    /\ [](inPlay =>
             /\ \A sq \in Squares :
                    pieceAt(game.board, sq) # 0 =>
                        /\ listCapturesForPiece(game.board, sq.r, sq.c, game.rules)
                               = listCapturesForPiece(game.board, sq.r, sq.c,
                                                      otherMulti(game.rules))
                        /\ listMovesForPiece(game.board, sq.r, sq.c, game.rules)
                               = listMovesForPiece(game.board, sq.r, sq.c,
                                                   otherMulti(game.rules))
             /\ \A p \in legalPayloads(game) :
                    inert(p, afterMove(p),
                          makeMove(twinRooms, seated(game.turn), p.from, p.to)
                              .rooms[FIXED_ROOM].state))
    /\ [][moveCount' = moveCount + 1 =>
             /\ game'.turn = -game.turn
             /\ game'.rules = game.rules]_vars

\* A position reached, under multiCapture "forced", by a capture whose piece
\* has a further capture from its landing square, and the other side to move.
C14_Witness ==
    /\ hasRoom(rooms)
    /\ game.rules.multiCapture = "forced"
    /\ game.lastMove # Null
    /\ game.lastMove.captured # Null
    /\ game.winner = 0
    /\ sign(pieceAt(game.board, game.lastMove.to)) = -game.turn
    /\ capTargets(game, game.lastMove.to) # {}

\* The squares strictly between two squares of one diagonal.
between(from, to) ==
    LET n == IF to.r > from.r THEN to.r - from.r ELSE from.r - to.r
        d == << IF to.r > from.r THEN 1 ELSE -1, IF to.c > from.c THEN 1 ELSE -1 >>
    IN IF to = along(from, d, n) THEN { along(from, d, j) : j \in 1 .. (n - 1) } ELSE {}
\* lastMove as the claim has it, for payload p and the state after it.
audit(p, next) ==
    LET piece == pieceAt(game.board, p.from)
        jumped == { sq \in between(p.from, p.to) :
                       sign(pieceAt(game.board, sq)) = -sign(piece) }
        lm == next.lastMove
    IN /\ lm.from = p.from
       /\ lm.to = p.to
       /\ IF p.to \in capTargets(game, p.from)
          THEN jumped = { lm.captured }
          ELSE lm.captured = Null
       /\ lm.penaltyRemoved = forfeits(game, p)
       /\ ~lm.penaltyRemoved =>
              /\ pieceAt(next.board, p.to) # 0
              /\ pieceAt(next.board, p.to) \in { piece, 2 * sign(piece) }
       /\ ~(lm.captured # Null /\ lm.penaltyRemoved)

\* C15: after every accepted move lastMove holds the submitted squares, the
\* jumped enemy's square exactly when the destination is a capture landing
\* (null otherwise), and penaltyRemoved exactly under the penalty's condition;
\* without penaltyRemoved the moved piece stands on the destination; captured
\* and penaltyRemoved never go together. Every step that applies a move leaves
\* such a record of a move of the side that was to move.
C15_LastMoveAudit ==
    /\ [](inPlay => \A p \in legalPayloads(game) : audit(p, afterMove(p)))
    /\ [][moveCount' = moveCount + 1 =>
             /\ game'.lastMove # Null
             /\ [from |-> game'.lastMove.from, to |-> game'.lastMove.to]
                    \in legalPayloads(game)
             /\ audit(game'.lastMove, game')]_vars

\* A position reached, under mustCapture with the penalty off, by a move that
\* took nothing although the side that moved has a capture: the piece stands.
C15_Witness ==
    /\ hasRoom(rooms)
    /\ game.rules.mustCapture
    /\ ~game.rules.skipCapturePenaltyRemoveMoved
    /\ game.lastMove # Null
    /\ game.lastMove.captured = Null
    /\ ~game.lastMove.penaltyRemoved
    /\ sign(pieceAt(game.board, game.lastMove.to)) = -game.turn
    /\ \E sq \in held(game.board, -game.turn) :
           sq # game.lastMove.to /\ capTargets(game, sq) # {}

count(board, side) == Cardinality(held(board, side))
\* The pieces the move of payload p takes off the board, per the claim.
conserved(p, next) ==
    LET side == game.turn
        own == count(game.board, side) - count(next.board, side)
        opp == count(game.board, -side) - count(next.board, -side)
    IN IF p.to \in capTargets(game, p.from) THEN own = 0 /\ opp = 1
       ELSE IF forfeits(game, p) THEN own = 1 /\ opp = 0 /\ pieceAt(next.board, p.to) = 0
       ELSE own = 0 /\ opp = 0

\* C20: an accepted capture takes exactly one piece of the opponent and none
\* of the mover, a penalised non-capture exactly the moved piece, any other
\* move none; neither side has more than 12 pieces, and no step other than
\* one that sets up the initial position adds a piece to a side.
C20_PieceConservation ==
    /\ [](hasRoom(rooms) =>
             /\ count(game.board, 1) <= 12
             /\ count(game.board, -1) <= 12
             /\ inPlay => \A p \in legalPayloads(game) : conserved(p, afterMove(p)))
    /\ [][hasRoom(rooms) =>
             \/ game'.board = InitialBoard
             \/ /\ count(game'.board, 1) <= count(game.board, 1)
                /\ count(game'.board, -1) <= count(game.board, -1)
                /\ count(game'.board, 1) + count(game'.board, -1) + 1
                       >= count(game.board, 1) + count(game.board, -1)]_vars

\* A position reached by a capture with the full set of one side still on the
\* board, and one in which both a capture and a forfeit are open to the mover.
C20_Witness ==
    /\ inPlay
    /\ \E p \in legalPayloads(game) : p.to \in capTargets(game, p.from)
    /\ \E p \in legalPayloads(game) : forfeits(game, p)
    /\ game.lastMove # Null
    /\ count(game.board, 1) + count(game.board, -1) >= 3

\* ------------------------------------------------ claims on who may act
\* The moves that are legal for one side or the other on the board of the
\* room, whoever is to move.
eitherSide == legalPayloads(game) \cup legalPayloads([game EXCEPT !.turn = -game.turn])
holdsSeat(socket, side) == socket # NoSocket /\ seated(side) = socket

\* C12: a makeMove changes the board only when the submitting socket holds
\* the seat of the side to move and the source square holds a piece of that
\* side; sent by a spectator or by the player who is not to move it leaves
\* the whole room as it is. Every step that applies a move moves a piece of
\* the side to move while that side is seated.
C12_OnlySideToMoveMoves ==
    /\ [](hasRoom(rooms) =>
             \A socket \in Sockets, p \in eitherSide \cup StrayPayloads :
                 LET res == makeMove(rooms, socket, p.from, p.to)
                 IN /\ boardAfter(res) # game.board =>
                           /\ holdsSeat(socket, game.turn)
                           /\ p.from \in held(game.board, game.turn)
                    /\ ~holdsSeat(socket, game.turn) => unchanged(res))
    /\ [][moveCount' = moveCount + 1 =>
             /\ seated(game.turn) # NoSocket
             /\ game'.lastMove.from \in held(game.board, game.turn)
             /\ rooms'[FIXED_ROOM].players = rooms[FIXED_ROOM].players]_vars

\* A room in play, one move made, where the player who is not to move sits on
\* another socket and has a legal move of their own pieces to submit.
C12_Witness ==
    /\ inPlay
    /\ game.lastMove # Null
    /\ seated(-game.turn) \notin {NoSocket, seated(game.turn)}
    /\ legalPayloads([game EXCEPT !.turn = -game.turn]) # {}
    /\ legalPayloads(game) # {}

\* The updateRules payloads of the claim: each boolean field as a literal that
\* JavaScript takes for true or for false, multiCapture as one of its two
\* names, as another value, or missing.
SentRules ==
    { payload(mc, sk, mu, fm, fc, mb) :
          mc \in {"true", "false"}, sk \in {"1", "0"},
          mu \in {"'forced'", "'optional'", "true", "undefined"},
          fm \in {"'all'", "''"}, fc \in {"true", "null"},
          mb \in {"'all'", "undefined"} }
\* The value a rule field is to have after coercion.
on(v) == v \in {"true", "1", "'all'"}
coerced(rules) ==
    [mustCapture |-> on(rules.mustCapture),
     skipCapturePenaltyRemoveMoved |-> on(rules.skipCapturePenaltyRemoveMoved),
     multiCapture |-> IF rules.multiCapture = "'forced'" THEN "forced" ELSE "optional",
     flyingKingMove |-> on(rules.flyingKingMove),
     flyingKingCapture |-> on(rules.flyingKingCapture),
     menBackwardCapture |-> on(rules.menBackwardCapture)]

\* What updateRules does, for every sender and payload: sent by a socket that
\* does not hold the white seat it leaves the room as it is; sent by the
\* white seat it replaces the six rule fields by the coerced payload
\* (booleans, multiCapture "optional" or "forced") and leaves board, turn,
\* winner, lastMove and seats as they are.
updateRulesByWhiteOnly ==
    \A socket \in Sockets, rules \in SentRules \cup RulePayloads :
        LET res == updateRules(rooms, socket, rules)
        IN IF holdsSeat(socket, 1)
           THEN /\ res.rooms[FIXED_ROOM].state = [game EXCEPT !.rules = coerced(rules)]
                /\ res.rooms[FIXED_ROOM].players = rooms[FIXED_ROOM].players
                /\ res.emits = << "state" >>
           ELSE unchanged(res)
\* Nothing a socket that does not hold the white seat sends changes the rules.
rulesAfter(res) == res.rooms[FIXED_ROOM].state.rules
othersKeepRules ==
    \A socket \in { x \in Sockets : ~holdsSeat(x, 1) } :
        /\ \A seat \in Seats, clientId \in ClientIds \cup {NoClient} :
               rulesAfter(joinRoom(rooms, socket, seat, clientId)) = game.rules
        /\ \A p \in eitherSide \cup StrayPayloads :
               rulesAfter(makeMove(rooms, socket, p.from, p.to)) = game.rules
        /\ rulesAfter(resetGame(rooms, socket)) = game.rules
        /\ rulesAfter(disconnect(rooms, socket)) = game.rules

\* C13: only the socket holding the white seat can change the rule
\* configuration; an updateRules from black or a spectator leaves the state
\* unchanged; an accepted updateRules replaces the six rule fields by the
\* coerced payload and leaves board, turn, winner and lastMove unchanged.
C13_RulesByWhiteOnly ==
    hasRoom(rooms) => (updateRulesByWhiteOnly /\ othersKeepRules)

\* The part of C13 that is about updateRules alone.
C13_UpdateRulesAlone ==
    hasRoom(rooms) => updateRulesByWhiteOnly

\* ------------------------------------------------ claims on a game in play
\* C17: in every state of the room in which winner is None the side to move
\* has a legal capture or a legal simple move under the rules in force.
C17_NoStuckGame ==
    (hasRoom(rooms) /\ game.winner = 0) => ~stuck(game, game.turn)

\* ------------------------------------------------ claims on the seats
\* The socket on the seat of a side after a handler has run.
seatAfter(res, side) ==
    IF side = 1 THEN res.rooms[FIXED_ROOM].players.white
    ELSE res.rooms[FIXED_ROOM].players.black

\* C18: while a socket holds a seat (a socket that disconnects gives up its
\* seats, so a holder is connected), no joinRoom of another socket, whatever
\* seat and clientId it carries, changes who holds that seat.
C18_SeatStability ==
    hasRoom(rooms) =>
        \A side \in {1, -1} :
            seated(side) # NoSocket =>
                \A socket \in Sockets \ {seated(side)}, seat \in Seats,
                   clientId \in ClientIds \cup {NoClient} :
                    seatAfter(joinRoom(rooms, socket, seat, clientId), side) = seated(side)

\* C19: the white seat and the black seat are never held by the same socket.
C19_DistinctSeats ==
    hasRoom(rooms) => (seated(1) = seated(-1) => seated(1) = NoSocket)

\* ------------------------------------------------ claims on classification
\* No two entries of a list of moves have the same destination.
noTwice(list) == \A i, j \in 1 .. Len(list) : list[i].to = list[j].to => i = j

\* C21: for every occupied square the destinations of its simple moves and
\* the landing squares of its captures are disjoint and no landing square
\* belongs to two captures; applyMove treats a legal destination as a capture
\* exactly when it is not a simple move, the jumped square being the one of
\* the only capture landing there, and so does every step that applies a
\* move.
C21_UnambiguousCaptures ==
    /\ [](hasRoom(rooms) =>
             \A sq \in Squares :
                 pieceAt(game.board, sq) # 0 =>
                     LET caps == listCapturesForPiece(game.board, sq.r, sq.c, game.rules)
                         moves == listMovesForPiece(game.board, sq.r, sq.c, game.rules)
                     IN /\ targets(caps) \cap targets(moves) = {}
                        /\ noTwice(caps)
                        /\ \A t \in targets(caps) \cup targets(moves) :
                               LET next == applyMoveWithRules(game, [from |-> sq, to |-> t])
                               IN /\ (next.lastMove.captured # Null) <=> (t \notin targets(moves))
                                  /\ \A cp \in toSet(caps) :
                                         cp.to = t => next.lastMove.captured = cp.over)
    /\ [][moveCount' = moveCount + 1 =>
             ((game'.lastMove.captured # Null)
                 <=> (game'.lastMove.to \notin moveTargets(game, game'.lastMove.from)))]_vars

\* A position reached by a capture in which a flying king has, on one ray,
\* simple moves up to an enemy piece and two or more landing squares behind
\* it.
C21_Witness ==
    /\ hasRoom(rooms)
    /\ game.lastMove # Null
    /\ game.lastMove.captured # Null
    /\ game.rules.flyingKingMove
    /\ game.rules.flyingKingCapture
    /\ \E sq \in Squares, d \in Dirs :
           /\ isKing(pieceAt(game.board, sq))
           /\ along(sq, d, 1) \in moveTargets(game, sq)
           /\ Cardinality({ k \in 2 .. LastRow : along(sq, d, k) \in capTargets(game, sq) }) >= 2

\* ------------------------------------------------ claims on the far rows
\* No man of a side stands on the row where it would have been promoted.
noFarMen(board) ==
    \A c \in Rows : board[farRow(1)][c] # 1 /\ board[farRow(-1)][c] # -1

\* C22: no White man stands on row 0 and no Black man on row 7: on the board
\* of the room, before and after an accepted move, and on the board every
\* rule update and every reset leaves.
C22_NoManOnFarRow ==
    hasRoom(rooms) =>
        /\ noFarMen(game.board)
        /\ \A socket \in Sockets :
               /\ noFarMen(boardAfter(resetGame(rooms, socket)))
               /\ \A rules \in RulePayloads :
                      noFarMen(boardAfter(updateRules(rooms, socket, rules)))

\* A position reached by a capture that landed on the far row of the side
\* that moved, two squares from its source, where a king of that side now
\* stands, while that side still has a man elsewhere.
C22_Witness ==
    /\ hasRoom(rooms)
    /\ game.lastMove # Null
    /\ game.lastMove.captured # Null
    /\ game.lastMove.to.r = farRow(-game.turn)
    /\ game.lastMove.from.r \in {game.lastMove.to.r + 2, game.lastMove.to.r - 2}
    /\ pieceAt(game.board, game.lastMove.to) = 2 * (-game.turn)
    /\ \E sq \in Squares : pieceAt(game.board, sq) = -game.turn

====
